---- MODULE Spec2Model ----
(***************************************************************************)
(* Autopilot orchestration engine of wp-seo: run_autopilot_once, the       *)
(* autopilot file lock, the dedup ledger and the three source adapters as  *)
(* far as they touch the ledger.                                           *)
(***************************************************************************)
EXTENDS Integers, Sequences, FiniteSets, TLC

(* ------------------------------ bounds --------------------------------- *)
NumUrls == 2            \* distinct source URLs of the modelled world
MaxEntries == 1         \* entries one feed or channel holds
NumFeeds == 2           \* RSS feeds in rss_sources
NumChannels == 1        \* channels in youtube_channels / telegram_channels
MaxRuns == 2            \* invocations of run_autopilot_once in a behaviour
MaxDay == 1             \* UTC days after day 0
MaxCap == 2             \* largest configured max_per_run / daily_limit_total

(* --------------------------- program constants ------------------------- *)
LimitPerUnit == 3       \* autopilot_*_limit_per_feed / _per_channel default

Procs == {"cli", "daemon"}
NoProc == "none"
Sources == {"rss", "youtube", "telegram"}
Modes == {"publish", "draft", "off"}
Urls == 1..NumUrls
NoTitle == "null"
SeoTitle == "seo_title"
NoStatus == "None"
CountedStatuses == {"published", "draft"}

(* ------------------------------ helpers -------------------------------- *)
Max(a, b) == IF a >= b THEN a ELSE b

Take(s, n) == SubSeq(s, 1, IF n < Len(s) THEN n ELSE Len(s))

SeqsUpTo(S, n) == UNION {[1..k -> S] : k \in 0..n}

RECURSIVE FilterSeq(_, _)
FilterSeq(s, keep) ==
    IF s = <<>> THEN <<>>
    ELSE IF Head(s) \in keep THEN <<Head(s)>> \o FilterSeq(Tail(s), keep)
         ELSE FilterSeq(Tail(s), keep)

SeqRange(s) == {s[i] : i \in 1..Len(s)}

\* the concatenation of a sequence of sequences, first to last
RECURSIVE Concat(_)
Concat(ss) == IF ss = <<>> THEN <<>> ELSE Head(ss) \o Concat(Tail(ss))

(* ------------------------------ settings ------------------------------- *)
\* the autopilot keys of settings.json; youtube_api_key: whether it is non-empty
AllSettings ==
    [autopilot_enabled : BOOLEAN,
     enabled : [Sources -> BOOLEAN],
     mode : [Sources -> Modes],
     youtube_api_key : BOOLEAN,
     max_per_run : 0..MaxCap,
     daily_limit_total : 0..MaxCap]

\* the sources all switched on or all switched off, RSS publishing and the
\* channels drafting, any caps, with or without a YouTube API key
SettingsSet ==
    {st \in AllSettings :
        /\ \A s, t \in Sources : st.enabled[s] = st.enabled[t]
        /\ st.mode = [s \in Sources |-> IF s = "rss" THEN "publish" ELSE "draft"]}

(* ------------------------------- world --------------------------------- *)
\* youtube_discovery builds watch?v= URLs and tg_parser builds t.me URLs, so
\* the two never coincide; an RSS entry may link to anything
YoutubeUrls == {u \in Urls : u % 2 = 1}

TelegramUrls == {u \in Urls : u % 2 = 0}

\* a Telegram message: the URL built from its id, and whether it carries text
TgMessages == [url : TelegramUrls, text : BOOLEAN]

\* a feed or channel: whether a request to it succeeds, and its latest entries
Units(E) == {[ok |-> FALSE, entries |-> <<>>]} \cup
            {[ok |-> TRUE, entries |-> e] : e \in SeqsUpTo(E, MaxEntries)}

Worlds ==
    [rss : [1..NumFeeds -> Units(Urls)],
     youtube : [1..NumChannels -> Units(YoutubeUrls)],
     telegram : [1..NumChannels -> Units(TgMessages)]]

(* ------------------------------- ledger -------------------------------- *)
\* utils/database.py: processed_links, keyed by url
\* a ledger lookup that never finds a record
IsUrlProcessedNever(l, url) == FALSE

IsUrlProcessed(l, url) == url \in DOMAIN l

\* an upsert that replaces the whole row
MarkUrlProcessedReplaces(l, url, source, title, status, now) ==
    (url :> [source |-> source, title |-> title, status |-> status,
             created_at |-> now]) @@ [u \in DOMAIN l \ {url} |-> l[u]]

\* lines 55-68: INSERT ... ON CONFLICT(url) DO UPDATE SET source, status,
\* title = COALESCE(excluded.title, processed_links.title)
MarkUrlProcessed(l, url, source, title, status, now) ==
    IF url \in DOMAIN l
    THEN [l EXCEPT ![url] = [source |-> source,
                             title |-> IF title # NoTitle THEN title ELSE @.title,
                             status |-> status,
                             created_at |-> @.created_at]]
    ELSE (url :> [source |-> source, title |-> title, status |-> status,
                  created_at |-> now]) @@ l

CountProcessedSince(l, since, statuses) ==
    IF statuses = {} THEN 0
    ELSE Cardinality({u \in DOMAIN l :
                        l[u].created_at >= since /\ l[u].status \in statuses})

CountProcessedToday(l, today, statuses) == CountProcessedSince(l, today, statuses)

EmptyLedger == [u \in {} |-> 0]

(* ------------------------------- state --------------------------------- *)
VARIABLES
    settings,     \* the settings map handed to run_autopilot_once
    world,        \* what the feeds and channels currently hold
    day,          \* current UTC day
    ledger,       \* processed_links table
    lockHolder,   \* descriptors holding the flock on secrets/autopilot.lock
    runs,         \* invocations started so far
    wpPosts,      \* per URL: posts the publisher created for it
    postsToday,   \* posts the publisher created for autopilot on the current day
    pc,           \* per invocation: position in run_autopilot_once
    loc,          \* per invocation: local variables of run_autopilot_once
    last,         \* the call that ended in the latest step, if one did
    daemon,       \* the daemon loop of src/autopilot.py: its clock and locals
    profile       \* calls of resolve_profile and of the functions checked on
                  \* their own, with what they returned

vars == <<settings, world, day, ledger, lockHolder, runs, wpPosts, postsToday,
          pc, loc, last, daemon, profile>>

(* ------------------------- run_autopilot_once -------------------------- *)
\* mode values as they may stand in settings.json
RawModes == Modes \cup {"", " Publish "}

\* line 27: (mode or "").strip().lower()
StripLower(mode) == IF mode = " Publish " THEN "publish" ELSE mode

\* a mapping that publishes whatever the mode says
ModeToWpStatusAlwaysPublish(mode) == "publish"

ModeToWpStatus(mode) ==
    LET m == StripLower(mode)
    IN IF m = "publish" THEN "publish"
       ELSE IF m = "draft" THEN "draft"
       ELSE NoStatus

WpStatusForSource(st) == [s \in Sources |-> ModeToWpStatus(st.mode[s])]

\* sources argument: None, or an explicit list
NoSources == [given |-> FALSE, list |-> {}]

SourceArgs == {NoSources} \cup {[given |-> TRUE, list |-> S] : S \in SUBSET Sources}

SelectedSources(st, src) ==
    LET first == IF src.list # {} THEN src.list
                 ELSE {s \in Sources : st.enabled[s]}
    IN {s \in first : WpStatusForSource(st)[s] # NoStatus}

AutopilotResult(processed, published, drafted, skipped, errors, details) ==
    [processed |-> processed, published |-> published, drafted |-> drafted,
     skipped |-> skipped, errors |-> errors, details |-> details]

Line(tag, source, url) == [tag |-> tag, source |-> source, url |-> url]

ZeroResult(tag) == AutopilotResult(0, 0, 0, 0, 0, <<Line(tag, "-", 0)>>)

NoResult == AutopilotResult(0, 0, 0, 0, 0, <<>>)

InitLoc ==
    [selected |-> {}, wp_status_for_source |-> [s \in Sources |-> NoStatus],
     max_per_run |-> 0, daily_limit_total |-> 0,
     queue |-> <<>>, assembled |-> <<>>, idx |-> 1,
     processed |-> 0, published |-> 0, drafted |-> 0, skipped |-> 0,
     errors |-> 0, details |-> <<>>]

ResultOf(l) ==
    AutopilotResult(l.processed, l.published, l.drafted, l.skipped, l.errors,
                    l.details)

\* how a call of run_autopilot_once ended: "returned" an AutopilotResult,
\* "raised" the lock error, or was "killed"; frame holds its locals at that point
\* src/autopilot.py: what the caller of run_autopilot_once does with the way
\* the call ended; the one-shot path (lines 65-68) has no handler around the
\* call, the daemon loop (lines 47-59) catches Exception and goes on
CallerOutcome(p, how, res) ==
    IF p = "cli"
    THEN (IF how = "returned" THEN (IF res.errors = 0 THEN "exit_0" ELSE "exit_2")
          ELSE IF how = "raised" THEN "unhandled_exception"
          ELSE how)
    ELSE IF p = "daemon"
    THEN (IF how = "returned" THEN "printed_result"
          ELSE IF how = "raised" THEN "printed_error"
          ELSE how)
    ELSE how

Ended(p, how, res, frame) ==
    [proc |-> p, how |-> how, result |-> res, frame |-> frame,
     caller |-> CallerOutcome(p, how, res)]

NoCall == Ended(NoProc, "none", NoResult, InitLoc)

(* ----------------------- the daemon loop's locals ----------------------- *)
SleepSeconds == 30      \* --sleep-seconds default

StartTime == 1000       \* time.time() at the first pass of the loop, in seconds

\* src/autopilot.py line 31; clock is the wall clock, now the value read at
\* line 33 of the latest pass, due the list built by that pass, invoked_at
\* the time of each source's latest call of run_autopilot_once
InitDaemon ==
    [phase |-> "asleep", clock |-> StartTime, now |-> 0,
     last_run |-> [s \in Sources |-> 0], due |-> {},
     invoked_at |-> [s \in Sources |-> 0]]

\* src/autopilot.py lines 61-62: time.sleep(max(1, sleep_seconds))
Sleep(d) == [d EXCEPT !.phase = "asleep", !.clock = @ + Max(1, SleepSeconds)]

\* src/autopilot.py lines 47-62: last_run[s] = now sits inside the try, after
\* the call; the except clause prints the error and leaves last_run alone
AfterCall(d, how) ==
    Sleep([d EXCEPT !.last_run = [s \in Sources |->
                                     IF how = "returned" /\ s \in d.due
                                     THEN d.now ELSE @[s]]])

\* what a step of invocation p means for the daemon loop: its call of
\* run_autopilot_once (line 48) begins, goes on, or ends with event e
DaemonAfter(p, e) ==
    IF p # "daemon" \/ daemon.phase \notin {"due", "calling"}
    THEN daemon
    ELSE LET d == IF daemon.phase = "due"
                  THEN [daemon EXCEPT
                          !.phase = "calling",
                          !.invoked_at = [s \in Sources |->
                               IF s \in daemon.due THEN daemon.now ELSE @[s]]]
                  ELSE daemon
         IN IF e.proc # "daemon" THEN d
            ELSE IF e.how = "killed" THEN [d EXCEPT !.phase = "dead"]
            ELSE AfterCall(d, e.how)

\* no text hashed, no call of resolve_profile made
NoProfile == [sha |-> [t \in {} |-> 0], calls |-> <<>>]

\* a pre-run check that lets a run start when the count only equals the cap
PreRunLimitStrict(daily_limit_total, already_today) ==
    daily_limit_total # 0 /\ already_today > daily_limit_total

\* line 85
PreRunLimit(daily_limit_total, already_today) ==
    daily_limit_total # 0 /\ already_today >= daily_limit_total

\* a check that never finds autopilot disabled
DisabledNever(st, src) == FALSE

\* line 49
Disabled(st, src) == ~st.autopilot_enabled /\ ~src.given

\* lines 48-96: the early exits, before the lock
Start(p, src) ==
    /\ pc[p] = "idle"
    /\ runs < MaxRuns
    /\ runs' = runs + 1
    /\ LET max_per_run == Max(0, settings.max_per_run)
           daily_limit_total == Max(0, settings.daily_limit_total)
           selected == SelectedSources(settings, src)
           already_today == CountProcessedToday(ledger, day, CountedStatuses)
           early(tag) ==
               /\ UNCHANGED <<pc, loc>>
               /\ last' = Ended(p, "returned", ZeroResult(tag), InitLoc)
       IN IF Disabled(settings, src)
          THEN early("disabled")
          ELSE IF selected = {}
          THEN early("no_sources")
          ELSE IF PreRunLimit(daily_limit_total, already_today)
          THEN early("daily_limit")
          ELSE /\ pc' = [pc EXCEPT ![p] = "lock"]
               /\ loc' = [loc EXCEPT ![p] =
                     [InitLoc EXCEPT
                        !.selected = selected,
                        !.wp_status_for_source = WpStatusForSource(settings),
                        !.max_per_run = max_per_run,
                        !.daily_limit_total = daily_limit_total]]
               /\ last' = NoCall
    /\ UNCHANGED <<settings, world, day, ledger, lockHolder, wpPosts, postsToday>>
    /\ daemon' = DaemonAfter(p, last')
    /\ UNCHANGED profile

\* a lock that is never granted
FlockNeverGrants(holders, p) == holders

\* a descriptor whose close leaves the lock held
CloseFdLeaks(holders, p) == holders

\* a lock that is granted whatever other descriptors hold
FlockGrantsAlways(holders, p) == holders \cup {p}

\* utils/autopilot_lock.py lines 19-27: flock(fd, LOCK_EX | LOCK_NB) on a fresh
\* descriptor; granted only when no other descriptor holds the lock
Flock(holders, p) == IF holders = {} THEN holders \cup {p} ELSE holders

\* utils/autopilot_lock.py lines 28-32: os.close(fd) drops the lock
CloseFd(holders, p) == holders \ {p}

\* a refusal turned into an ordinary all-zero result
LockErrorSwallowed(p, frame) == Ended(p, "returned", ZeroResult("already_running"), frame)

\* utils/autopilot_lock.py lines 25-26: RuntimeError, passed on by line 98
LockError(p, frame) == Ended(p, "raised", NoResult, frame)

Acquire(p) ==
    /\ pc[p] = "lock"
    /\ lockHolder' = Flock(lockHolder, p)
    /\ IF p \in lockHolder'
       THEN /\ pc' = [pc EXCEPT ![p] = "rss"]
            /\ last' = NoCall
            /\ UNCHANGED loc
       ELSE /\ pc' = [pc EXCEPT ![p] = "idle"]
            /\ last' = LockError(p, loc[p])
            /\ loc' = [loc EXCEPT ![p] = InitLoc]
    /\ UNCHANGED <<settings, world, day, ledger, runs, wpPosts, postsToday>>
    /\ daemon' = DaemonAfter(p, last')
    /\ UNCHANGED profile

(* ---------------------------- source adapters -------------------------- *)
\* the adapter's own is_url_processed filter (rss_parser.py line 53)
NewUrls(l, urls) == FilterSeq(urls, {u \in Urls : ~IsUrlProcessed(l, u)})

\* an orchestrator that enqueues whatever the adapter returned
UnprocessedKeepsAll(l, urls) == urls

\* run_autopilot_once lines 105-108, 126-129, 143-146: skip what the ledger holds
Unprocessed(l, urls) == FilterSeq(urls, {u \in Urls : ~IsUrlProcessed(l, u)})

\* a fetch that gives up as a whole when one of its feeds fails
FetchLatestRssItemsAborting(l, feeds, limit) ==
    IF \E i \in 1..Len(feeds) : ~feeds[i].ok
    THEN <<>>
    ELSE NewUrls(l, Concat([i \in 1..Len(feeds) |->
                               Take(feeds[i].entries, Max(0, limit))]))

\* modules/rss_parser.py: a failing feed is skipped silently
RECURSIVE FetchLatestRssItems(_, _, _)
FetchLatestRssItems(l, feeds, limit) ==
    IF feeds = <<>> THEN <<>>
    ELSE (IF Head(feeds).ok
          THEN NewUrls(l, Take(Head(feeds).entries, Max(0, limit)))
          ELSE <<>>)
         \o FetchLatestRssItems(l, Tail(feeds), limit)

\* modules/youtube_discovery.py: the playlist items, unfiltered
FetchLatestChannelVideos(chan, limit) ==
    Take(chan.entries, IF Max(0, limit) > 0 THEN Max(0, limit) ELSE 1)

\* modules/tg_parser.py lines 49-72: every returned post is marked "seen"
RECURSIVE FetchLatestPosts(_, _, _, _)
FetchLatestPosts(l, msgs, posts, now) ==
    IF msgs = <<>> THEN [ledger |-> l, posts |-> posts]
    ELSE LET m == Head(msgs)
         IN IF IsUrlProcessed(l, m.url) \/ ~m.text
            THEN FetchLatestPosts(l, Tail(msgs), posts, now)
            ELSE FetchLatestPosts(
                     MarkUrlProcessed(l, m.url, "telegram", NoTitle, "seen", now),
                     Tail(msgs), Append(posts, m.url), now)

\* a queue built back to front
ItemsReversed(source, urls) ==
    [i \in 1..Len(urls) |-> [source |-> source, url |-> urls[Len(urls) + 1 - i]]]

\* lines 108, 129, 146: queue.append((source, link)), one candidate at a time
Items(source, urls) == [i \in 1..Len(urls) |-> [source |-> source, url |-> urls[i]]]

QueueUrls(q) == {q[i].url : i \in 1..Len(q)}

\* lines 102-108
AssembleRss(p) ==
    /\ pc[p] = "rss"
    /\ pc' = [pc EXCEPT ![p] = "youtube"]
    /\ IF "rss" \in loc[p].selected
       THEN LET items == FetchLatestRssItems(ledger, world.rss, LimitPerUnit)
            IN loc' = [loc EXCEPT
                  ![p].queue = @ \o Items("rss", Unprocessed(ledger, items))]
       ELSE UNCHANGED loc
    /\ last' = NoCall
    /\ UNCHANGED <<settings, world, day, ledger, lockHolder, runs, wpPosts, postsToday>>
    /\ daemon' = DaemonAfter(p, last')
    /\ UNCHANGED profile

\* lines 116-129: one channel after the other
RECURSIVE YoutubeChannels(_, _, _)
YoutubeChannels(l, st, chans) ==
    IF chans = <<>> THEN st
    ELSE IF ~Head(chans).ok
    THEN YoutubeChannels(l,
             [st EXCEPT !.errors = @ + 1,
                        !.details = Append(@, Line("youtube_discovery_error", "youtube", 0))],
             Tail(chans))
    ELSE YoutubeChannels(l,
             [st EXCEPT !.queue = @ \o Items("youtube",
                  Unprocessed(l, FetchLatestChannelVideos(Head(chans), LimitPerUnit)))],
             Tail(chans))

\* lines 110-129
AssembleYoutube(p) ==
    /\ pc[p] = "youtube"
    /\ pc' = [pc EXCEPT ![p] = "telegram"]
    /\ IF "youtube" \in loc[p].selected
       THEN IF ~settings.youtube_api_key
            THEN loc' = [loc EXCEPT ![p].details =
                            Append(@, Line("youtube_no_api_key", "youtube", 0))]
            ELSE loc' = [loc EXCEPT
                  ![p] = YoutubeChannels(ledger, @, world.youtube)]
       ELSE UNCHANGED loc
    /\ last' = NoCall
    /\ UNCHANGED <<settings, world, day, ledger, lockHolder, runs, wpPosts, postsToday>>
    /\ daemon' = DaemonAfter(p, last')
    /\ UNCHANGED profile

\* lines 133-146: one channel after the other; the adapter writes the ledger
RECURSIVE TelegramChannels(_, _, _, _)
TelegramChannels(l, st, chans, now) ==
    IF chans = <<>> THEN [ledger |-> l, st |-> st]
    ELSE IF ~Head(chans).ok
    THEN TelegramChannels(l,
             [st EXCEPT !.errors = @ + 1,
                        !.details = Append(@, Line("telegram_fetch_error", "telegram", 0))],
             Tail(chans), now)
    ELSE LET f == FetchLatestPosts(l, Take(Head(chans).entries, Max(0, LimitPerUnit)),
                                   <<>>, now)
         IN TelegramChannels(f.ledger,
                [st EXCEPT !.queue = @ \o Items("telegram", Unprocessed(f.ledger, f.posts))],
                Tail(chans), now)

\* a cap of 0 taken as "keep no item"
CapQueueZeroKeepsNone(queue, max_per_run) == Take(queue, max_per_run)

\* a run that never truncates its queue
CapQueueNone(queue, max_per_run) == queue

\* lines 151-153
CapQueue(queue, max_per_run) ==
    IF max_per_run # 0 THEN Take(queue, max_per_run) ELSE queue

\* lines 131-153
AssembleTelegram(p) ==
    /\ pc[p] = "telegram"
    /\ LET t == IF "telegram" \in loc[p].selected
                THEN TelegramChannels(ledger, loc[p], world.telegram, day)
                ELSE [ledger |-> ledger, st |-> loc[p]]
       IN /\ ledger' = t.ledger
          /\ IF t.st.queue = <<>>
             THEN /\ pc' = [pc EXCEPT ![p] = "idle"]
                  /\ loc' = [loc EXCEPT ![p] = InitLoc]
                  /\ last' = Ended(p, "returned", ZeroResult("no_new_items"), t.st)
                  /\ lockHolder' = CloseFd(lockHolder, p)
             ELSE /\ pc' = [pc EXCEPT ![p] = "loop"]
                  /\ loc' = [loc EXCEPT ![p] =
                        [t.st EXCEPT !.assembled = t.st.queue,
                                     !.queue = CapQueue(t.st.queue, t.st.max_per_run)]]
                  /\ last' = NoCall
                  /\ UNCHANGED lockHolder
    /\ UNCHANGED <<settings, world, day, runs, wpPosts, postsToday>>
    /\ daemon' = DaemonAfter(p, last')
    /\ UNCHANGED profile

(* ------------------------------ item loop ------------------------------ *)
Outcomes == {"ok", "generate_error", "publish_error", "killed"}

\* an in-loop check that stops only once the count exceeds the cap
InRunLimitStrict(daily_limit_total, already_today) ==
    daily_limit_total # 0 /\ already_today > daily_limit_total

\* lines 156-158
InRunLimit(daily_limit_total, already_today) ==
    daily_limit_total # 0 /\ already_today >= daily_limit_total

DailyLimitReached(l, lim, today) ==
    InRunLimit(lim, CountProcessedToday(l, today, CountedStatuses))

\* lines 211-216: the counters of a published item, before the ledger write
CountPublished(l, wp_status) ==
    [l EXCEPT !.processed = @ + 1,
              !.published = IF wp_status = "publish" THEN @ + 1 ELSE @,
              !.drafted = IF wp_status = "publish" THEN @ ELSE @ + 1]

\* lines 211-219: the counters and the detail line of a published item
CountSuccess(l, item, wp_status) ==
    [CountPublished(l, wp_status) EXCEPT
        !.details = Append(@, Line(wp_status, item.source, item.url))]

\* a failure handler that counts the skip but not the error
CountFailureSkipOnly(l, item) ==
    [l EXCEPT !.skipped = @ + 1,
              !.details = Append(@, Line("error", item.source, item.url))]

\* a failure handler that leaves no detail line
CountFailureSilent(l, item) ==
    [l EXCEPT !.errors = @ + 1,
              !.skipped = @ + 1]

\* lines 220-223: the counters and the detail line of a failed item
CountFailure(l, item) ==
    [l EXCEPT !.errors = @ + 1,
              !.skipped = @ + 1,
              !.details = Append(@, Line("error", item.source, item.url))]

\* an item whose generator or publisher error leaves run_autopilot_once
ItemFailedRaises(p, l, item) ==
    [pc |-> "idle", loc |-> InitLoc, last |-> Ended(p, "raised", NoResult, l)]

\* lines 166, 220-223: except Exception around the whole item; the handler
\* counts the failure and the loop goes on with the next item
ItemFailed(p, l, item) ==
    [pc |-> "loop", loc |-> [CountFailure(l, item) EXCEPT !.idx = @ + 1],
     last |-> NoCall]

\* lines 212-217: the ledger status written for a published item
LedgerStatus(wp_status) == IF wp_status = "publish" THEN "published" ELSE "draft"

\* lines 155-160: the cap is met before the next item
DailyBreak(p) ==
    /\ pc[p] = "loop"
    /\ loc[p].idx <= Len(loc[p].queue)
    /\ DailyLimitReached(ledger, loc[p].daily_limit_total, day)
    /\ LET l == [loc[p] EXCEPT !.details =
                    Append(@, Line("daily_limit_during_run", "-", 0))]
       IN last' = Ended(p, "returned", ResultOf(l), l)
    /\ loc' = [loc EXCEPT ![p] = InitLoc]
    /\ pc' = [pc EXCEPT ![p] = "idle"]
    /\ lockHolder' = CloseFd(lockHolder, p)
    /\ UNCHANGED <<settings, world, day, ledger, runs, wpPosts, postsToday>>
    /\ daemon' = DaemonAfter(p, last')
    /\ UNCHANGED profile

\* lines 162-223: one item, by how its generate/publish calls end;
\* "killed": the process dies after the publisher returned, before line 211
\* "ledger_error": mark_url_processed (line 214 or 217) raises, e.g. with
\* sqlite3.OperationalError "database is locked", inside the try of line 166
ProcessItem(p, oc) ==
    /\ pc[p] = "loop"
    /\ loc[p].idx <= Len(loc[p].queue)
    /\ ~DailyLimitReached(ledger, loc[p].daily_limit_total, day)
    /\ LET item == loc[p].queue[loc[p].idx]
           status == loc[p].wp_status_for_source[item.source]
           wp_status == IF status # NoStatus THEN status ELSE "draft"
           posted == /\ wpPosts' = [wpPosts EXCEPT ![item.url] = @ + 1]
                     /\ postsToday' = postsToday + 1
       IN CASE oc = "ok" ->
                 /\ posted
                 /\ ledger' = MarkUrlProcessed(ledger, item.url, item.source, SeoTitle,
                                               LedgerStatus(wp_status), day)
                 /\ loc' = [loc EXCEPT
                       ![p] = [CountSuccess(@, item, wp_status) EXCEPT !.idx = @ + 1]]
                 /\ last' = NoCall
                 /\ UNCHANGED <<pc, lockHolder>>
            [] oc \in {"generate_error", "publish_error"} ->
                 LET f == ItemFailed(p, loc[p], item)
                 IN /\ loc' = [loc EXCEPT ![p] = f.loc]
                    /\ pc' = [pc EXCEPT ![p] = f.pc]
                    /\ last' = f.last
                    /\ lockHolder' = IF f.pc = "idle" THEN CloseFd(lockHolder, p)
                                      ELSE lockHolder
                    /\ UNCHANGED <<ledger, wpPosts, postsToday>>
            [] oc = "ledger_error" ->
                 /\ posted
                 /\ loc' = [loc EXCEPT
                       ![p] = [CountFailure(CountPublished(@, wp_status), item)
                                  EXCEPT !.idx = @ + 1]]
                 /\ last' = NoCall
                 /\ UNCHANGED <<ledger, pc, lockHolder>>
            [] oc = "killed" ->
                 /\ posted
                 /\ last' = Ended(p, "killed", NoResult, loc[p])
                 /\ loc' = [loc EXCEPT ![p] = InitLoc]
                 /\ pc' = [pc EXCEPT ![p] = "idle"]
                 /\ lockHolder' = CloseFd(lockHolder, p)
                 /\ UNCHANGED ledger
    /\ UNCHANGED <<settings, world, day, runs>>
    /\ daemon' = DaemonAfter(p, last')
    /\ UNCHANGED profile

\* line 225, leaving the with block
ReturnResult(p) ==
    /\ pc[p] = "loop"
    /\ loc[p].idx > Len(loc[p].queue)
    /\ pc' = [pc EXCEPT ![p] = "idle"]
    /\ last' = Ended(p, "returned", ResultOf(loc[p]), loc[p])
    /\ loc' = [loc EXCEPT ![p] = InitLoc]
    /\ lockHolder' = CloseFd(lockHolder, p)
    /\ UNCHANGED <<settings, world, day, ledger, runs, wpPosts, postsToday>>
    /\ daemon' = DaemonAfter(p, last')
    /\ UNCHANGED profile

\* utils/database.py line 96: datetime.now(timezone.utc) passes midnight
Midnight ==
    /\ day < MaxDay
    /\ day' = day + 1
    /\ postsToday' = 0
    /\ last' = NoCall
    /\ UNCHANGED <<settings, world, ledger, lockHolder, runs, wpPosts, pc, loc>>
    /\ UNCHANGED <<daemon, profile>>

InitOf(SS, WW, LL) ==
    /\ settings \in SS
    /\ world \in WW
    /\ day = 0
    /\ ledger \in LL
    /\ lockHolder = {}
    /\ runs = 0
    /\ wpPosts = [u \in Urls |-> 0]
    /\ postsToday = 0
    /\ pc = [p \in Procs |-> "idle"]
    /\ loc = [p \in Procs |-> InitLoc]
    /\ last = NoCall
    /\ daemon = InitDaemon
    /\ profile = NoProfile

Init == InitOf(SettingsSet, Worlds, {EmptyLedger})

\* the steps of the invocations under way
Work ==
    \/ \E p \in Procs : Acquire(p)
    \/ \E p \in Procs : AssembleRss(p)
    \/ \E p \in Procs : AssembleYoutube(p)
    \/ \E p \in Procs : AssembleTelegram(p)
    \/ \E p \in Procs : DailyBreak(p)
    \/ \E p \in Procs, oc \in Outcomes : ProcessItem(p, oc)
    \/ \E p \in Procs : ReturnResult(p)

\* callers that pass no sources argument, within one UTC day
Next ==
    \/ \E p \in Procs : Start(p, NoSources)
    \/ Work

Spec == Init /\ [][Next]_vars

(* ------------------------------- drivers ------------------------------- *)
\* src/autopilot.py lines 64-68: python autopilot.py [--sources ...]
CliOnce(src) == Start("cli", src)

\* src/autopilot.py lines 32-62: one pass of the daemon loop that finds the
\* sources in due ready; the loop sleeps while autopilot_enabled is false
DaemonTick(due) ==
    /\ settings.autopilot_enabled
    /\ due # {}
    /\ Start("daemon", [given |-> TRUE, list |-> due])

\* any enable flags, any RSS mode, Telegram drafting or off, no per-run cap,
\* a daily cap of at most one
DriverSettings ==
    [autopilot_enabled : BOOLEAN,
     enabled : [Sources -> BOOLEAN],
     mode : {m \in [Sources -> RawModes] :
                m["youtube"] \in Modes /\ m["telegram"] \in {"draft", "off"}},
     youtube_api_key : {TRUE},
     max_per_run : {0},
     daily_limit_total : 0..1]

\* every feed and channel answers and holds one entry
DriverWorlds ==
    {w \in Worlds :
        /\ \A i \in 1..NumFeeds : w.rss[i].ok /\ Len(w.rss[i].entries) = 1
        /\ w.rss[1].entries = w.rss[NumFeeds].entries
        /\ \A i \in 1..NumChannels :
              /\ w.youtube[i].ok /\ Len(w.youtube[i].entries) = 1
              /\ w.telegram[i].ok /\ Len(w.telegram[i].entries) = 1
              /\ w.telegram[i].entries[1].text}

InitDrivers == InitOf(DriverSettings, DriverWorlds, {EmptyLedger})

NextDrivers ==
    \/ \E src \in SourceArgs : CliOnce(src)
    \/ \E due \in SUBSET Sources : DaemonTick(due)
    \/ Work

SpecDrivers == InitDrivers /\ [][NextDrivers]_vars

\* the same callers across midnight
NextDays ==
    \/ Next
    \/ Midnight

SpecDays == Init /\ [][NextDays]_vars

(* ----------------------------- daemon loop ----------------------------- *)
MaxPasses == 3          \* sleeps of the daemon loop in a behaviour

PollMinutes == {0, 1}   \* configured autopilot_<source>_poll_minutes

\* src/autopilot.py lines 41-42
PollInterval(minutes) == Max(60, (IF minutes # 0 THEN minutes ELSE 10) * 60)

\* src/autopilot.py lines 33-46, 61-62: one pass of the loop up to the call;
\* with autopilot off or nothing due it sleeps and starts over
DaemonWake ==
    /\ daemon.phase = "asleep"
    /\ pc["daemon"] = "idle"
    /\ daemon.clock < StartTime + MaxPasses * SleepSeconds
    /\ LET now == daemon.clock
           due == IF settings.autopilot_enabled
                  THEN {s \in Sources :
                          now - daemon.last_run[s] >= PollInterval(settings.poll_minutes[s])}
                  ELSE {}
           d == [daemon EXCEPT !.now = now, !.due = due]
       IN daemon' = IF due = {} THEN Sleep(d) ELSE [d EXCEPT !.phase = "due"]
    /\ last' = NoCall
    /\ UNCHANGED <<settings, world, day, ledger, lockHolder, runs, wpPosts,
                   postsToday, pc, loc, profile>>

\* src/autopilot.py line 48: run_autopilot_once(settings, sources=due)
DaemonCall ==
    /\ daemon.phase = "due"
    /\ Start("daemon", [given |-> TRUE, list |-> daemon.due])

\* autopilot on or off, every source enabled, no per-run cap, a daily cap of
\* at most one, any poll minutes
DaemonSettings ==
    [autopilot_enabled : BOOLEAN,
     enabled : {[s \in Sources |-> TRUE]},
     mode : {[s \in Sources |-> IF s = "rss" THEN "publish" ELSE "draft"]},
     youtube_api_key : {TRUE},
     max_per_run : {0},
     daily_limit_total : 0..1,
     poll_minutes : [Sources -> PollMinutes]]

InitDaemonLoop == InitOf(DaemonSettings, DriverWorlds, {EmptyLedger})

\* python autopilot.py --daemon, with one-shot runs started beside it
NextDaemon ==
    \/ DaemonWake
    \/ DaemonCall
    \/ CliOnce(NoSources)
    \/ Work

SpecDaemon == InitDaemonLoop /\ [][NextDaemon]_vars

(* --------------------------- content profile --------------------------- *)
MaxCalls == 2           \* calls of resolve_profile in a behaviour

MaxDigest == 4          \* largest value of int(sha256(text).hexdigest()[:8], 16)

\* modules/content_profile.py lines 13-37: the keys, in dict order
STYLE_PRESETS == <<"entertainment", "author", "professional", "thematic", "random">>

FORMAT_PRESETS == <<"article", "post", "pr", "press_release", "release_notes", "random">>

MOOD_PRESETS == <<"neutral", "serious", "humor", "playful", "random">>

Axes == {"style", "format", "mood"}

Digests == 0..MaxDigest

\* values of content_style / content_format / author_mood in settings.json
RawChoices(presets) == SeqRange(presets) \cup {"", " random ", "bogus"}

ProfileSettings ==
    [content_style : RawChoices(STYLE_PRESETS),
     content_format : RawChoices(FORMAT_PRESETS),
     author_mood : RawChoices(MOOD_PRESETS)]

\* str.strip() on the values above
Strip(value) == IF value = " random " THEN "random" ELSE value

\* lines 47-51
NormalizeChoice(value, allowed, default) ==
    LET v == Strip(value)
    IN IF v = "" THEN default
       ELSE IF v \in SeqRange(allowed) THEN v ELSE default

\* a choice list that keeps the "random" key
NonRandomKeepsAll(presets) == presets

\* lines 112-114: [k for k in PRESETS.keys() if k != "random"]
NonRandom(presets) == FilterSeq(presets, SeqRange(presets) \ {"random"})

\* lines 39-44, digest standing for int(sha256(seed).hexdigest()[:8], 16)
StablePick(options, digest) == options[(digest % Len(options)) + 1]

\* lines 98-121, one axis
ResolveAxis(value, presets, default, digest) ==
    LET v == NormalizeChoice(value, presets, default)
    IN IF v = "random" THEN StablePick(NonRandom(presets), digest) ELSE v

\* the axes whose value makes resolve_profile hash f"{seed}|{axis}"
HashedAxes(st) ==
    {a \in Axes :
        NormalizeChoice(IF a = "style" THEN st.content_style
                        ELSE IF a = "format" THEN st.content_format
                        ELSE st.author_mood,
                        IF a = "style" THEN STYLE_PRESETS
                        ELSE IF a = "format" THEN FORMAT_PRESETS
                        ELSE MOOD_PRESETS,
                        "-") = "random"}

\* lines 91-143, the three preset axes of the returned ContentProfile; h
\* gives the digest of each axis's text
ResolveProfile(st, h) ==
    [style |-> ResolveAxis(st.content_style, STYLE_PRESETS, "professional", h["style"]),
     content_format |->
         ResolveAxis(st.content_format, FORMAT_PRESETS, "article", h["format"]),
     mood |-> ResolveAxis(st.author_mood, MOOD_PRESETS, "neutral", h["mood"])]

\* one call resolve_profile(settings, seed=seed); sha256 is a function of
\* the text: a text hashed before has the digest it had then, a text hashed
\* for the first time may have any
ResolveProfileCall(seed) ==
    /\ Len(profile.calls) < MaxCalls
    /\ \E h \in [Axes -> Digests] :
         LET known == DOMAIN profile.sha
             hashed == {<<seed, a>> : a \in HashedAxes(settings)}
         IN /\ \A a \in Axes :
                  IF <<seed, a>> \in known THEN h[a] = profile.sha[<<seed, a>>]
                  ELSE <<seed, a>> \in hashed \/ h[a] = 0
            /\ profile' =
                 [sha |-> [t \in known \cup hashed |->
                              IF t \in known THEN profile.sha[t] ELSE h[t[2]]],
                  calls |-> Append(profile.calls,
                                   [seed |-> seed,
                                    result |-> ResolveProfile(settings, h)])]
    /\ UNCHANGED <<settings, world, day, ledger, lockHolder, runs, wpPosts,
                   postsToday, pc, loc, last, daemon>>

\* no feed or channel holds anything
QuietWorld ==
    [rss |-> [i \in 1..NumFeeds |-> [ok |-> TRUE, entries |-> <<>>]],
     youtube |-> [i \in 1..NumChannels |-> [ok |-> TRUE, entries |-> <<>>]],
     telegram |-> [i \in 1..NumChannels |-> [ok |-> TRUE, entries |-> <<>>]]]

InitProfile == InitOf(ProfileSettings, {QuietWorld}, {EmptyLedger})

\* the seed is the URL of the item the article is written for
NextProfile == \E seed \in Urls : ResolveProfileCall(seed)

SpecProfile == InitProfile /\ [][NextProfile]_vars

(* ------------------------- generator invocation ------------------------- *)
\* a system prompt without the block of ContentProfile.prompt_block
NoBlock == [style |-> "none", content_format |-> "none", mood |-> "none"]

\* modules/ai_engine.py lines 151-158: the base prompt plus the profile block
BuildArticleSystemPrompt(st, h) ==
    [base |-> "article_system_prompt", block |-> ResolveProfile(st, h)]

\* the system_prompt argument of generate_article for one queued item:
\* autopilot.py lines 183 and 198 for RSS and Telegram items,
\* youtube_parser.py lines 108 and 125 for YouTube items
GeneratorSystemPrompt(source, st, h) ==
    IF source = "youtube"
    THEN [base |-> "article_system_prompt", block |-> NoBlock]
    ELSE BuildArticleSystemPrompt(st, h)

\* autopilot.py lines 166-199: the generator is invoked for one queued item
GenerateForItem(source, seed) ==
    /\ Len(profile.calls) < MaxCalls
    /\ \E h \in [Axes -> Digests] :
         LET known == DOMAIN profile.sha
             hashed == IF source = "youtube" THEN {}
                       ELSE {<<seed, a>> : a \in HashedAxes(settings)}
         IN /\ \A a \in Axes :
                  IF <<seed, a>> \in known THEN h[a] = profile.sha[<<seed, a>>]
                  ELSE <<seed, a>> \in hashed \/ h[a] = 0
            /\ profile' =
                 [sha |-> [t \in known \cup hashed |->
                              IF t \in known THEN profile.sha[t] ELSE h[t[2]]],
                  calls |-> Append(profile.calls,
                                   [seed |-> seed, source |-> source,
                                    system_prompt |->
                                        GeneratorSystemPrompt(source, settings, h)])]
    /\ UNCHANGED <<settings, world, day, ledger, lockHolder, runs, wpPosts,
                   postsToday, pc, loc, last, daemon>>

\* any stored style, format and mood each at its default or at "random"
PromptSettings ==
    {st \in ProfileSettings :
        /\ st.content_format \in {"article", "random"}
        /\ st.author_mood \in {"neutral", "random"}}

InitPrompts == InitOf(PromptSettings, {QuietWorld}, {EmptyLedger})

NextPrompts == \E source \in Sources, seed \in Urls : GenerateForItem(source, seed)

SpecPrompts == InitPrompts /\ [][NextPrompts]_vars

(* ------------------------ integer settings keys ------------------------- *)
\* values a key of settings.json can hold where an integer is expected: a
\* JSON number, a string that is no number ("abc"), null
RawValues ==
    {[kind |-> "int", v |-> n] : n \in 0..1}
        \cup {[kind |-> "str", v |-> 0], [kind |-> "none", v |-> 0]}

\* Python's int(raw): ValueError for the string, TypeError for None
PyInt(raw) == [raised |-> raw.kind # "int", value |-> raw.v]

\* modules/autopilot.py lines 35-40
GetInt(raw, default) == IF PyInt(raw).raised THEN default ELSE PyInt(raw).value

\* src/autopilot.py line 41: int(settings.get(key, 10) or 10); 0 and None
\* are falsy, a non-empty string is not
PollMinutesOf(raw) ==
    IF raw.kind = "none" \/ (raw.kind = "int" /\ raw.v = 0)
    THEN [raised |-> FALSE, value |-> 10]
    ELSE PyInt(raw)

RawIntSettings ==
    [autopilot_enabled : {TRUE},
     max_per_run : RawValues,
     daily_limit_total : RawValues,
     limit_per_feed : RawValues,
     poll_minutes : [Sources -> RawValues]]

\* modules/autopilot.py lines 60-61 and 103: the integer keys as
\* run_autopilot_once reads them
ReadIntKeys(p) ==
    /\ pc[p] = "idle"
    /\ pc' = [pc EXCEPT ![p] = "lock"]
    /\ loc' = [loc EXCEPT ![p] =
          [limit_per_feed |-> Max(0, GetInt(settings.limit_per_feed, 3))] @@
          [InitLoc EXCEPT
              !.max_per_run = Max(0, GetInt(settings.max_per_run, 3)),
              !.daily_limit_total = Max(0, GetInt(settings.daily_limit_total, 10))]]
    /\ last' = NoCall
    /\ UNCHANGED <<settings, world, day, ledger, lockHolder, runs, wpPosts,
                   postsToday, daemon, profile>>

\* src/autopilot.py lines 33-44: the daemon loop reads the poll minutes; the
\* conversion is outside the try of line 47, an exception ends the process
\* (the call of line 48 is taken to return at once)
DaemonReadMinutes ==
    /\ daemon.phase = "asleep"
    /\ daemon.clock < StartTime + MaxPasses * SleepSeconds
    /\ LET now == daemon.clock
           m == [s \in Sources |-> PollMinutesOf(settings.poll_minutes[s])]
           due == {s \in Sources :
                      now - daemon.last_run[s] >= PollInterval(m[s].value)}
       IN daemon' = IF \E s \in Sources : m[s].raised
                    THEN [daemon EXCEPT !.now = now, !.phase = "crashed"]
                    ELSE Sleep([daemon EXCEPT
                                  !.now = now, !.due = due,
                                  !.last_run = [s \in Sources |->
                                                   IF s \in due THEN now ELSE @[s]]])
    /\ last' = NoCall
    /\ UNCHANGED <<settings, world, day, ledger, lockHolder, runs, wpPosts,
                   postsToday, pc, loc, profile>>

InitIntKeys == InitOf(RawIntSettings, {QuietWorld}, {EmptyLedger})

NextIntKeys ==
    \/ \E p \in Procs : ReadIntKeys(p)
    \/ DaemonReadMinutes

SpecIntKeys == InitIntKeys /\ [][NextIntKeys]_vars

(* ------------------------------ the ledger ------------------------------ *)
Titles == {NoTitle, SeoTitle, "other_title"}

Statuses == {"seen", "draft", "published"}

\* utils/database.py lines 53-68: one call mark_url_processed(url, source=,
\* title=, status=), from any caller
MarkUrl(url, source, title, status) ==
    /\ Len(profile.calls) < MaxCalls
    /\ ledger' = MarkUrlProcessed(ledger, url, source, title, status, day)
    /\ profile' = [profile EXCEPT
          !.calls = Append(@, [url |-> url, source |-> source, title |-> title,
                               status |-> status])]
    /\ UNCHANGED <<settings, world, day, lockHolder, runs, wpPosts,
                   postsToday, pc, loc, last, daemon>>

InitLedger == InitOf({CHOOSE st \in SettingsSet : TRUE}, {QuietWorld}, {EmptyLedger})

NextLedger ==
    \E url \in Urls, source \in Sources, title \in Titles, status \in Statuses :
        MarkUrl(url, source, title, status)

SpecLedger == InitLedger /\ [][NextLedger]_vars

(* ------------------------ the settings of an item ----------------------- *)
\* the override written into the caller's own map
SettingsForPublishInPlace(st, wp_status) ==
    [caller |-> [st EXCEPT !.wp_post_status = wp_status],
     for_publish |-> [st EXCEPT !.wp_post_status = wp_status]]

\* lines 163-164: dict(settings) is a new map with the same keys, and the
\* assignment goes to the new map; caller: the map run_autopilot_once was given
SettingsForPublish(st, wp_status) ==
    [caller |-> st,
     for_publish |-> [st EXCEPT !.wp_post_status = wp_status]]

\* wp_publisher.py lines 66-69: the status of the post that is created
PostStatus(st) ==
    IF st.wp_post_status \in {"draft", "publish"} THEN st.wp_post_status
    ELSE "draft"

\* lines 162-164 and 209 for one queued item of a source
PublishItem(source) ==
    /\ Len(profile.calls) < MaxCalls
    /\ LET status == WpStatusForSource(settings)[source]
           wp_status == IF status # NoStatus THEN status ELSE "draft"
           s == SettingsForPublish(settings, wp_status)
       IN /\ settings' = s.caller
          /\ profile' = [profile EXCEPT
                !.calls = Append(@, [source |-> source,
                                     post_status |-> PostStatus(s.for_publish)])]
    /\ UNCHANGED <<world, day, ledger, lockHolder, runs, wpPosts,
                   postsToday, pc, loc, last, daemon>>

\* any publishing mode per source; wp_post_status of the manual flow at
\* either value or absent
PublishSettings ==
    [mode : [Sources -> {"publish", "draft"}],
     wp_post_status : {"draft", "publish", NoStatus}]

InitPublish == InitOf(PublishSettings, {QuietWorld}, {EmptyLedger})

NextPublish == \E source \in Sources : PublishItem(source)

SpecPublish == InitPublish /\ [][NextPublish]_vars

\* the same callers, with a ledger whose write may fail
NextFaults ==
    \/ Next
    \/ \E p \in Procs : ProcessItem(p, "ledger_error")

SpecFaults == Init /\ [][NextFaults]_vars

\* one caller that runs again and again, each run ending by its return:
\* every call it makes of run_autopilot_once begins after the one before ended
NextTwice ==
    \/ Start("cli", NoSources)
    \/ Acquire("cli")
    \/ AssembleRss("cli")
    \/ AssembleYoutube("cli")
    \/ AssembleTelegram("cli")
    \/ DailyBreak("cli")
    \/ \E oc \in Outcomes \ {"killed"} : ProcessItem("cli", oc)
    \/ ReturnResult("cli")

SpecTwice == Init /\ [][NextTwice]_vars

(* --------------------------- runs without end -------------------------- *)
\* the URLs whose generation or publishing fails whenever it is tried
FailingUrls == {1}

\* lines 166-223 for the item at hand: it fails exactly when its URL is one
\* of those
AttemptGoes(p, oc) ==
    /\ pc[p] = "loop"
    /\ loc[p].idx <= Len(loc[p].queue)
    /\ (loc[p].queue[loc[p].idx].url \in FailingUrls) <=> (oc # "ok")

\* lines 155-223: the next item of the queue, with the outcome its URL has
AttemptItem(p) ==
    \E oc \in {"ok", "generate_error", "publish_error"} :
        AttemptGoes(p, oc) /\ ProcessItem(p, oc)

\* src/autopilot.py lines 30-62: the loop calls again for as long as the
\* process lives; the count of the calls made so far starts over
RunsWrap ==
    /\ runs = MaxRuns
    /\ pc["cli"] = "idle"
    /\ runs' = 0
    /\ last' = NoCall
    /\ UNCHANGED <<settings, world, day, ledger, lockHolder, wpPosts,
                   postsToday, pc, loc, daemon, profile>>

\* autopilot on with every source enabled, a per-run cap, no daily cap
StarveSettings ==
    {st \in SettingsSet :
        /\ st.autopilot_enabled
        /\ \A s \in Sources : st.enabled[s]
        /\ st.max_per_run > 0
        /\ st.daily_limit_total = 0}

\* any feeds and YouTube channels, and Telegram channels without messages
StarveWorlds ==
    {w \in Worlds : \A c \in 1..NumChannels : w.telegram[c].entries = <<>>}

InitStarve == InitOf(StarveSettings, StarveWorlds, {EmptyLedger})

NextStarve ==
    \/ Start("cli", NoSources)
    \/ Acquire("cli")
    \/ AssembleRss("cli")
    \/ AssembleYoutube("cli")
    \/ AssembleTelegram("cli")
    \/ AttemptItem("cli")
    \/ ReturnResult("cli")
    \/ RunsWrap

\* a run that began goes on to its end, and another run always follows
SpecStarve == InitStarve /\ [][NextStarve]_vars /\ WF_vars(NextStarve)

\* the adapters return the URL on every run for as long as the ledger does
\* not hold it, and its generation and publishing succeed
Candidate(u) ==
    /\ u \notin FailingUrls
    /\ \/ \E i \in 1..NumFeeds :
             world.rss[i].ok /\ u \in SeqRange(Take(world.rss[i].entries, LimitPerUnit))
       \/ /\ settings.youtube_api_key
          /\ \E c \in 1..NumChannels :
                /\ world.youtube[c].ok
                /\ u \in SeqRange(FetchLatestChannelVideos(world.youtube[c], LimitPerUnit))

(* ------------------------------ properties ----------------------------- *)
\* C1: under any interleaving of concurrent invocations, at most one of them
\* is inside the locked section (queue assembly plus item loop) at any time.
C1_OneRunInLockedSection ==
    Cardinality({p \in Procs : pc[p] \in {"rss", "youtube", "telegram", "loop"}}) <= 1

\* one invocation is inside the section while the other was just refused the lock
C1_RefusedWhileHeld ==
    /\ last.how = "raised"
    /\ \E p \in Procs : p # last.proc /\ pc[p] \in {"rss", "youtube", "telegram", "loop"}

\* C2: across any sequence of runs, crashed ones included, the publisher
\* succeeds at most once for any source URL.
C2_PublishedAtMostOnce == \A u \in Urls : wpPosts[u] <= 1

\* C3: every AutopilotResult that run_autopilot_once returns satisfies
\* processed = published + drafted and errors >= skipped.
C3_CounterInvariant ==
    last.how = "returned" =>
        /\ last.result.processed = last.result.published + last.result.drafted
        /\ last.result.errors >= last.result.skipped

\* a run returns after a published item, a drafted one, a failed one and a
\* channel that could not be fetched
C3_MixedResult ==
    /\ last.how = "returned"
    /\ last.result.published >= 1
    /\ last.result.drafted >= 1
    /\ last.result.skipped >= 1
    /\ last.result.errors > last.result.skipped

\* C4: with a nonzero daily_limit_total, the posts autopilot published or
\* drafted within one UTC day never exceed daily_limit_total, over any
\* sequence and interleaving of runs.
C4_DailyCapHolds ==
    settings.daily_limit_total # 0 => postsToday <= settings.daily_limit_total

\* C5: a URL that the ledger holds, with whatever status, when a run assembles
\* its queue is never placed in that queue, for every source kind.
C5_LedgeredNeverEnqueued ==
    [][\A p \in Procs :
          (pc[p] \in {"rss", "youtube", "telegram"} /\ pc'[p] # pc[p]) =>
              LET grown == IF pc[p] # "telegram" THEN loc'[p].queue
                           ELSE IF pc'[p] = "loop" THEN loc'[p].assembled
                           ELSE last'.frame.queue
              IN \A i \in 1..Len(grown) :
                    i > Len(loc[p].queue) => grown[i].url \notin DOMAIN ledger]_vars

\* a run has assembled a non-empty queue that leaves out a video the channel
\* still lists, because the ledger already holds its URL
C5_LedgeredVideoLeftOut ==
    \E p \in Procs :
        /\ pc[p] = "loop"
        /\ loc[p].idx = 1
        /\ "youtube" \in loc[p].selected
        /\ \E c \in 1..NumChannels :
              /\ world.youtube[c].ok
              /\ \E j \in 1..Len(world.youtube[c].entries) :
                    /\ world.youtube[c].entries[j] \in DOMAIN ledger
                    /\ \A i \in 1..Len(loc[p].assembled) :
                          loc[p].assembled[i].url # world.youtube[c].entries[j]

\* C6: a new Telegram post (text present, URL not in the ledger before the
\* run) of a channel in the effective set is placed in the run's queue.
C6_NewTelegramPostEnqueued ==
    [][\A p \in Procs :
          (pc[p] = "telegram" /\ pc'[p] # "telegram" /\ "telegram" \in loc[p].selected) =>
              \A c \in 1..NumChannels : \A j \in 1..Len(world.telegram[c].entries) :
                  LET m == world.telegram[c].entries[j]
                  IN (world.telegram[c].ok /\ j <= LimitPerUnit /\ m.text
                        /\ m.url \notin DOMAIN ledger)
                     => /\ pc'[p] = "loop"
                        /\ \E i \in 1..Len(loc'[p].assembled) :
                              loc'[p].assembled[i] = [source |-> "telegram", url |-> m.url]]_vars

\* C7: when daily_limit_total is nonzero and today's published+draft ledger
\* records already reach it as run_autopilot_once starts, the call returns
\* all-zero counters and one detail line without taking the lock, calling an
\* adapter, generator or publisher, or writing the ledger; the line is the
\* daily-limit one whenever autopilot is enabled and a source is selected.
C7_PreRunDailyLimit ==
    [][(/\ runs' = runs + 1
        /\ settings.daily_limit_total # 0
        /\ Cardinality({u \in DOMAIN ledger :
                          /\ ledger[u].created_at >= day
                          /\ ledger[u].status \in {"published", "draft"}})
              >= settings.daily_limit_total)
       => /\ last'.how = "returned"
          /\ last'.result.processed = 0 /\ last'.result.published = 0
          /\ last'.result.drafted = 0 /\ last'.result.skipped = 0
          /\ last'.result.errors = 0
          /\ Len(last'.result.details) = 1
          /\ (/\ settings.autopilot_enabled
              /\ \E s \in Sources : settings.enabled[s] /\ settings.mode[s] # "off")
             => last'.result.details[1].tag = "daily_limit"
          /\ UNCHANGED <<ledger, lockHolder, wpPosts, postsToday, pc, loc>>]_vars

\* a call has just returned the daily-limit line with the cap already met
C7_StoppedBeforeLock ==
    /\ last.how = "returned"
    /\ last.result.details = <<[tag |-> "daily_limit", source |-> "-", url |-> 0]>>
    /\ settings.daily_limit_total # 0
    /\ Cardinality({u \in DOMAIN ledger :
                      /\ ledger[u].created_at >= day
                      /\ ledger[u].status \in {"published", "draft"}})
          >= settings.daily_limit_total

\* C8: inside the loop the daily cap is re-checked before every item: once
\* today's published+draft count has reached a nonzero daily_limit_total, the
\* run generates and publishes no further item of its queue and ends with a
\* "daily limit reached during run" detail line appended.
C8_InRunDailyLimit ==
    [][\A p \in Procs :
          (/\ pc[p] = "loop"
           /\ loc[p].idx <= Len(loc[p].queue)
           /\ settings.daily_limit_total # 0
           /\ Cardinality({u \in DOMAIN ledger :
                             /\ ledger[u].created_at >= day
                             /\ ledger[u].status \in {"published", "draft"}})
                 >= settings.daily_limit_total
           /\ <<pc'[p], loc'[p]>> # <<pc[p], loc[p]>>)
          => /\ UNCHANGED <<wpPosts, postsToday, ledger>>
             /\ pc'[p] = "idle"
             /\ last'.proc = p
             /\ last'.how = "returned"
             /\ last'.result.details =
                   Append(loc[p].details,
                          [tag |-> "daily_limit_during_run", source |-> "-", url |-> 0])
             /\ last'.result.processed = loc[p].processed
             /\ last'.result.skipped = loc[p].skipped]_vars

\* a run that processed at least one item has just stopped on the cap with
\* queue entries left over
C8_StoppedDuringRun ==
    /\ last.how = "returned"
    /\ last.result.processed >= 1
    /\ last.frame.idx <= Len(last.frame.queue)
    /\ last.result.details[Len(last.result.details)].tag = "daily_limit_during_run"

C10_DroppedStayUnledgered ==
    last.how = "returned" =>
        \A i \in 1..Len(last.frame.assembled) :
            LET c == last.frame.assembled[i]
            IN (\A j \in 1..Len(last.result.details) : last.result.details[j].url # c.url)
               => c.url \notin DOMAIN ledger

\* C11: the resolved mode of a source alone decides the bucket of its items:
\* "publish" gives a published increment and ledger status "published",
\* "draft" a drafted increment and ledger status "draft", and a source with
\* any other mode contributes no candidate to the queue; each source's items
\* follow that source's own mode.
C11_ModeDecidesBucket ==
    [][\A p \in Procs :
          /\ \A i \in 1..Len(loc'[p].queue) :
                StripLower(settings.mode[loc'[p].queue[i].source]) \in {"publish", "draft"}
          /\ (pc[p] = "loop" /\ loc'[p].processed = loc[p].processed + 1) =>
                LET item == loc[p].queue[loc[p].idx]
                    mode == StripLower(settings.mode[item.source])
                IN /\ mode = "publish" =>
                         /\ loc'[p].published = loc[p].published + 1
                         /\ loc'[p].drafted = loc[p].drafted
                         /\ ledger'[item.url].status = "published"
                   /\ mode = "draft" =>
                         /\ loc'[p].drafted = loc[p].drafted + 1
                         /\ loc'[p].published = loc[p].published
                         /\ ledger'[item.url].status = "draft"
                   /\ ledger'[item.url].source = item.source]_vars

\* a run with RSS switched on but in no usable mode has published a video and
\* returned without a line about any RSS item
C11_OffSourceLeftOut ==
    /\ last.how = "returned"
    /\ settings.enabled["rss"]
    /\ StripLower(settings.mode["rss"]) \notin {"publish", "draft"}
    /\ settings.mode["youtube"] = "publish"
    /\ last.result.published >= 1
    /\ last.result.drafted = 0
    /\ \A i \in 1..Len(last.result.details) : last.result.details[i].source # "rss"

\* C12: a generation or publish failure of one queued item never aborts the
\* run: the failing item adds one to errors and one to skipped, gets a detail
\* line and writes nothing to the ledger, the run goes on to the next item,
\* and a run that the daily cap did not stop has attempted every queued item.
C12_FailureIsolated ==
    [][\A p \in Procs :
          /\ (pc[p] = "loop" /\ loc'[p].errors = loc[p].errors + 1) =>
                LET item == loc[p].queue[loc[p].idx]
                IN /\ loc'[p].skipped = loc[p].skipped + 1
                   /\ loc'[p].processed = loc[p].processed
                   /\ loc'[p].details =
                         Append(loc[p].details,
                                [tag |-> "error", source |-> item.source, url |-> item.url])
                   /\ loc'[p].idx = loc[p].idx + 1
                   /\ pc'[p] = "loop"
                   /\ last'.proc # p
                   /\ UNCHANGED <<ledger, wpPosts, lockHolder>>
          /\ (/\ last'.proc = p
              /\ last'.how = "returned"
              /\ last'.frame.queue # <<>>
              /\ \A i \in 1..Len(last'.result.details) :
                    last'.result.details[i].tag # "daily_limit_during_run")
             => last'.result.processed + last'.result.skipped = Len(last'.frame.queue)]_vars

\* three queued items of which only the second failed: processed 2, errors 1,
\* skipped 1, ledger records for the first and the third, none for the second
C12_SecondOfThreeFailed ==
    /\ last.how = "returned"
    /\ Len(last.frame.queue) = 3
    /\ last.result.processed = 2
    /\ last.result.errors = 1
    /\ last.result.skipped = 1
    /\ Len(last.result.details) = 3
    /\ last.result.details[2].tag = "error"
    /\ last.frame.queue[1].url \in DOMAIN ledger
    /\ last.frame.queue[3].url \in DOMAIN ledger
    /\ last.frame.queue[2].url \notin DOMAIN ledger

\* C13: during a run the ledger is written exactly once for each item whose
\* generation and publish succeeded and never otherwise: every step of a run
\* that changes the ledger is the success of the current queue item and
\* writes that item's record only, and a successful item always writes it.
C13_MarkedOnlyOnSuccess ==
    [][/\ ledger' # ledger =>
            \E p \in Procs :
                /\ pc[p] = "loop"
                /\ loc'[p].processed = loc[p].processed + 1
                /\ LET item == loc[p].queue[loc[p].idx]
                   IN /\ DOMAIN ledger' = DOMAIN ledger \cup {item.url}
                      /\ \A u \in DOMAIN ledger : u # item.url => ledger'[u] = ledger[u]
       /\ \A p \in Procs :
            (pc[p] = "loop" /\ loc'[p].processed = loc[p].processed + 1) =>
                /\ loc[p].queue[loc[p].idx].url \in DOMAIN ledger'
                /\ ledger'[loc[p].queue[loc[p].idx].url].status \in {"published", "draft"}]_vars

\* C14: an attempt to enter autopilot_lock never waits: made while another
\* holder is inside it ends at once with the "already running" error and
\* leaves the lock as it was, made while the lock is free it enters; so of two
\* concurrent attempts exactly one enters and the other raises.
C14_LockNeverWaits ==
    [][\A p \in Procs :
          (pc[p] = "lock" /\ pc'[p] # "lock") =>
              IF lockHolder # {}
              THEN /\ pc'[p] = "idle"
                   /\ last'.proc = p
                   /\ last'.how = "raised"
                   /\ lockHolder' = lockHolder
              ELSE /\ pc'[p] = "rss"
                   /\ lockHolder' = {p}]_vars

\* both invocations have tried: one holds the lock, the other is back at its
\* caller with the error
C14_OneInOneRefused ==
    /\ runs = 2
    /\ last.how = "raised"
    /\ pc[last.proc] = "idle"
    /\ \E q \in Procs : q # last.proc /\ lockHolder = {q}

\* C15: the lock is released on every way out of the critical section, so
\* no invocation outside the section holds it and, once every invocation that
\* took the lock has ended, the next acquisition attempt succeeds.
C15_LockReleasedOnExit ==
    [][/\ \A p \in Procs :
            pc'[p] \notin {"rss", "youtube", "telegram", "loop"} => p \notin lockHolder'
       /\ \A p \in Procs :
            (/\ pc[p] = "lock"
             /\ pc'[p] # "lock"
             /\ \A q \in Procs \ {p} : pc[q] \notin {"rss", "youtube", "telegram", "loop"})
            => pc'[p] = "rss"]_vars

\* an invocation has entered the section after an earlier one went through it
\* and ended
C15_ReacquiredAfterExit ==
    \E p \in Procs :
        /\ pc[p] = "rss"
        /\ lockHolder = {p}
        /\ ledger # EmptyLedger
        /\ \A q \in Procs \ {p} : pc[q] = "idle"

\* C16: when run_autopilot_once cannot take the lock because another run
\* holds it, it raises the "already running" error to its caller and returns
\* no AutopilotResult, having called no adapter, generator or publisher and
\* written nothing to the ledger.
C16_LockFailureRaised ==
    [][\A p \in Procs :
          (pc[p] = "lock" /\ pc'[p] # "lock" /\ lockHolder \ {p} # {}) =>
              /\ last'.proc = p
              /\ last'.how = "raised"
              /\ last'.result.details = <<>>
              /\ last'.frame.queue = <<>>
              /\ UNCHANGED <<ledger, wpPosts, postsToday>>]_vars

\* a refused invocation is back at its caller with nothing fetched, while the
\* run that holds the lock is at work on its queue
C16_RefusedEmptyHanded ==
    /\ last.how = "raised"
    /\ last.frame.selected # {}
    /\ last.frame.queue = <<>>
    /\ \E q \in Procs : q # last.proc /\ pc[q] = "loop" /\ q \in lockHolder

\* C17: both callers of the run, the one-shot command and the daemon loop,
\* take an "already running" failure as a skipped run: the driver does not
\* end with an unhandled exception when the lock is held.
C17_CallersSurviveLockFailure ==
    last.how = "raised" => last.caller # "unhandled_exception"

\* C18: when autopilot_enabled is false and no sources override is given, or
\* when the selected set is empty after mode resolution, run_autopilot_once
\* returns all-zero counters with one explanatory line and has no side
\* effect: no lock, no adapter call, no ledger change.
C18_EarlyExitsHaveNoEffect ==
    [][\A p \in Procs, src \in SourceArgs :
          (/\ runs' = runs + 1
           /\ \/ ~settings.autopilot_enabled /\ ~src.given
              \/ SelectedSources(settings, src) = {}
           /\ Start(p, src))
          => /\ last'.proc = p
             /\ last'.how = "returned"
             /\ last'.result.processed = 0 /\ last'.result.published = 0
             /\ last'.result.drafted = 0 /\ last'.result.skipped = 0
             /\ last'.result.errors = 0
             /\ Len(last'.result.details) = 1
             /\ last'.result.details[1].tag =
                   IF ~settings.autopilot_enabled /\ ~src.given
                   THEN "disabled" ELSE "no_sources"
             /\ UNCHANGED <<ledger, lockHolder, wpPosts, postsToday, pc, loc>>]_vars

\* a call has just returned the no-sources line although autopilot is on and
\* a source is switched on: every such source is in a mode that resolves to off
C18_AllSelectedOff ==
    /\ last.how = "returned"
    /\ last.result.details = <<[tag |-> "no_sources", source |-> "-", url |-> 0]>>
    /\ settings.autopilot_enabled
    /\ \E s \in Sources : settings.enabled[s]
    /\ lockHolder = {}
    /\ ledger = EmptyLedger

\* C19: with a sources override the selected set is exactly the override,
\* whatever the enable flags and autopilot_enabled say, less the members
\* whose mode is off; without one it is exactly the sources whose enable flag
\* is true, less those whose mode is off.
C19_OverrideIsSelection ==
    [][\A p \in Procs, src \in SourceArgs :
          (runs' = runs + 1 /\ (src.given \/ settings.autopilot_enabled) /\ Start(p, src)) =>
              LET chosen == IF src.given THEN src.list
                            ELSE {s \in Sources : settings.enabled[s]}
                  expected == {s \in chosen :
                                 StripLower(settings.mode[s]) \in {"publish", "draft"}}
              IN IF expected = {}
                 THEN pc'[p] = "idle" /\ last'.result.details[1].tag = "no_sources"
                 ELSE \/ pc'[p] = "lock" /\ loc'[p].selected = expected
                      \/ pc'[p] = "idle" /\ last'.result.details[1].tag = "daily_limit"]_vars

\* C20: a scheduled run never fetches or processes a source whose
\* autopilot_<source>_enabled flag is false.
C20_DaemonRespectsEnableFlags ==
    \A i \in 1..Len(loc["daemon"].queue) :
        settings.enabled[loc["daemon"].queue[i].source]

\* C21: the queue holds the RSS candidates, then the YouTube candidates, then
\* the Telegram candidates, each group in the order its adapter returned
\* them (feed after feed, channel after channel, entries in their own
\* order), and the items are processed one by one in queue order
C21_QueueInSourceOrder ==
    [][\A p \in Procs :
        LET l == loc[p]
            fresh(es) == FilterSeq(es, {u \in Urls : u \notin DOMAIN ledger})
            group(source, es) ==
                [i \in 1..Len(es) |-> [source |-> source, url |-> es[i]]]
            feeds == [i \in 1..Len(world.rss) |->
                        IF world.rss[i].ok
                        THEN Take(world.rss[i].entries, LimitPerUnit) ELSE <<>>]
            chans == [i \in 1..Len(world.youtube) |->
                        IF world.youtube[i].ok
                        THEN Take(world.youtube[i].entries, LimitPerUnit) ELSE <<>>]
        IN /\ (pc[p] = "rss" /\ pc'[p] # "rss") =>
                  loc'[p].queue =
                      l.queue \o (IF "rss" \in l.selected
                                  THEN group("rss", fresh(Concat(feeds))) ELSE <<>>)
           /\ (pc[p] = "youtube" /\ pc'[p] # "youtube") =>
                  loc'[p].queue =
                      l.queue \o (IF "youtube" \in l.selected /\ settings.youtube_api_key
                                  THEN group("youtube", fresh(Concat(chans))) ELSE <<>>)
           /\ (pc[p] = "telegram" /\ pc'[p] = "loop") =>
                  LET a == loc'[p].assembled
                      q == loc'[p].queue
                  IN /\ Len(a) >= Len(l.queue)
                     /\ SubSeq(a, 1, Len(l.queue)) = l.queue
                     /\ \A i \in (Len(l.queue) + 1)..Len(a) : a[i].source = "telegram"
                     /\ Len(q) <= Len(a)
                     /\ q = SubSeq(a, 1, Len(q))
           /\ (pc[p] = "loop" /\ pc'[p] = "loop" /\ loc'[p] # l) =>
                  /\ loc'[p].queue = l.queue
                  /\ loc'[p].idx = l.idx + 1
                  /\ Len(loc'[p].details) = Len(l.details) + 1
                  /\ LET d == loc'[p].details[Len(loc'[p].details)]
                     IN /\ d.source = l.queue[l.idx].source
                        /\ d.url = l.queue[l.idx].url]_vars

C21_TwoFeedsThenVideo ==
    /\ last.how = "returned"
    /\ Len(last.frame.queue) = 3
    /\ last.frame.queue[1] = [source |-> "rss", url |-> world.rss[1].entries[1]]
    /\ last.frame.queue[2] = [source |-> "rss", url |-> world.rss[2].entries[1]]
    /\ last.frame.queue[1].url # last.frame.queue[2].url
    /\ last.frame.queue[3].source = "youtube"
    /\ last.frame.idx = 4
    /\ \A i \in 1..3 : \E j \in 1..Len(last.result.details) :
           /\ last.result.details[j].url = last.frame.queue[i].url
           /\ last.result.details[j].source = last.frame.queue[i].source

\* C22: a feed or channel whose discovery fails contributes no candidate
\* and does not end the run: the candidates of the other feeds, channels
\* and source kinds are enqueued all the same, and the queue is processed
C22_DiscoveryFailureIsolated ==
    [][\A p \in Procs :
        LET l == loc[p]
            fresh(unit) == {unit.entries[i] : i \in 1..Len(unit.entries)} \ DOMAIN ledger
            added(source) ==
                {loc'[p].queue[i].url : i \in {j \in (Len(l.queue) + 1)..Len(loc'[p].queue) :
                                                  loc'[p].queue[j].source = source}}
            down(units) == {i \in 1..Len(units) : ~units[i].ok}
            kept == /\ Len(loc'[p].queue) >= Len(l.queue)
                    /\ SubSeq(loc'[p].queue, 1, Len(l.queue)) = l.queue
        IN /\ (pc[p] = "rss" /\ pc'[p] # "rss" /\ "rss" \in l.selected) =>
                  /\ pc'[p] = "youtube"
                  /\ kept
                  /\ added("rss") =
                       UNION {fresh(world.rss[i]) : i \in 1..Len(world.rss)}
           /\ (pc[p] = "youtube" /\ "youtube" \in l.selected
                 /\ settings.youtube_api_key /\ pc'[p] # "youtube") =>
                  /\ pc'[p] = "telegram"
                  /\ kept
                  /\ added("youtube") =
                       UNION {fresh(world.youtube[i]) : i \in 1..Len(world.youtube)}
                  /\ loc'[p].errors = l.errors + Cardinality(down(world.youtube))
           /\ (pc[p] = "telegram" /\ pc'[p] # "telegram"
                 /\ "telegram" \in l.selected /\ l.queue # <<>>) =>
                  /\ pc'[p] = "loop"
                  /\ Len(loc'[p].assembled) >= Len(l.queue)
                  /\ SubSeq(loc'[p].assembled, 1, Len(l.queue)) = l.queue
                  /\ loc'[p].errors = l.errors + Cardinality(down(world.telegram))
           /\ (pc[p] = "loop" /\ pc'[p] # "loop" /\ l.idx > Len(l.queue)) =>
                  /\ last'.proc = p
                  /\ last'.how = "returned"
                  /\ last'.result.processed + last'.result.skipped = Len(l.queue)]_vars

C22_OneFeedLeftOfAll ==
    /\ last.how = "returned"
    /\ last.frame.selected = Sources
    /\ ~world.rss[1].ok
    /\ world.rss[2].ok
    /\ \A i \in 1..Len(world.youtube) : ~world.youtube[i].ok
    /\ \A i \in 1..Len(world.telegram) : ~world.telegram[i].ok
    /\ settings.youtube_api_key
    /\ Len(last.frame.queue) = 1
    /\ last.frame.queue[1].url = world.rss[2].entries[1]
    /\ last.result.processed = 1
    /\ last.result.errors = Len(world.youtube) + Len(world.telegram)

\* C23: every feed or channel whose discovery failed during a run shows in
\* the result of that run: errors counts at least one per failed unit and
\* details holds a line for it, also when the queue came out empty
C23_DiscoveryFailuresReported ==
    (last.how = "returned" /\ last.frame.selected # {}) =>
        LET sel == last.frame.selected
            down(units) == Cardinality({i \in 1..Len(units) : ~units[i].ok})
            failures ==
                (IF "rss" \in sel THEN down(world.rss) ELSE 0)
                + (IF "youtube" \in sel /\ settings.youtube_api_key
                   THEN down(world.youtube) ELSE 0)
                + (IF "telegram" \in sel THEN down(world.telegram) ELSE 0)
            lines == {i \in 1..Len(last.result.details) :
                         last.result.details[i].tag \in
                             {"rss_fetch_error", "youtube_discovery_error",
                              "telegram_fetch_error"}}
        IN /\ last.result.errors >= failures
           /\ Cardinality(lines) >= failures

\* C24: of two runs in succession over the same source items, the second
\* yields processed = 0 (as first stated: whatever the first run did)
C24_SecondRunProcessesNothing ==
    (runs = 2 /\ last.how = "returned") => last.result.processed = 0

\* C24, amended: when every item the adapters deliver is in the ledger at
\* the start of a run (the run before it attempted every candidate and each
\* one succeeded), the run finds an empty queue and returns processed = 0
\* without publishing or writing anything
C24_NothingNewNothingProcessed ==
    [][\A p \in Procs :
        LET sel == loc[p].selected
            urls(units) == UNION {{units[i].entries[j] : j \in 1..Len(units[i].entries)} :
                                     i \in {k \in 1..Len(units) : units[k].ok}}
            posts(units) == UNION {{units[i].entries[j].url :
                                       j \in {k \in 1..Len(units[i].entries) :
                                                 units[i].entries[k].text}} :
                                     i \in {k \in 1..Len(units) : units[k].ok}}
            delivered ==
                (IF "rss" \in sel THEN urls(world.rss) ELSE {})
                \cup (IF "youtube" \in sel /\ settings.youtube_api_key
                      THEN urls(world.youtube) ELSE {})
                \cup (IF "telegram" \in sel THEN posts(world.telegram) ELSE {})
        IN (pc[p] = "telegram" /\ pc'[p] # "telegram" /\ delivered \subseteq DOMAIN ledger) =>
               /\ pc'[p] = "idle"
               /\ last'.proc = p
               /\ last'.how = "returned"
               /\ last'.result.processed = 0
               /\ ledger' = ledger
               /\ wpPosts' = wpPosts]_vars

C24_SecondRunFoundNothing ==
    /\ runs = 2
    /\ last.how = "returned"
    /\ last.frame.selected # {}
    /\ last.result.processed = 0
    /\ last.result.details[1].tag = "no_new_items"
    /\ \E u \in DOMAIN ledger : ledger[u].status \in CountedStatuses
    /\ \E i \in 1..NumFeeds : world.rss[i].ok /\ world.rss[i].entries # <<>>

\* C25: a URL delivered more than once during one queue assembly (by two
\* source kinds, or by two feeds or channels of one kind) is generated and
\* published at most once in that run
C25_DuplicateHandledOncePerRun ==
    \A p \in Procs :
        LET d == loc[p].details
            done == {i \in 1..Len(d) : d[i].tag \in {"publish", "draft"}}
        IN \A i, j \in done : i # j => d[i].url # d[j].url

C27_DueExactlyAfterInterval ==
    (/\ settings.autopilot_enabled
     /\ daemon.now >= StartTime
     /\ \/ daemon.phase = "due"
        \/ daemon.phase = "asleep" /\ daemon.due = {}) =>
        /\ daemon.due =
              {s \in Sources :
                  daemon.now - daemon.last_run[s]
                      >= Max(60, settings.poll_minutes[s] * 60)}
        /\ daemon.phase = "due" => daemon.due # {}

\* C28: once the daemon loop has called run_autopilot_once for its due
\* sources, none of them is called again before its interval has passed,
\* also when the run failed; their last-run timestamps are written only
\* after the call came back
C28_NotRetriedWithinInterval ==
    /\ daemon.phase = "due" =>
          \A s \in daemon.due :
              \/ daemon.invoked_at[s] = 0
              \/ daemon.now - daemon.invoked_at[s]
                     >= Max(60, settings.poll_minutes[s] * 60)
    /\ daemon.phase \in {"due", "calling"} =>
          \A s \in daemon.due : daemon.last_run[s] < daemon.now

\* C29: the one-shot command exits with a non-zero code whenever a failure
\* happened in its run (a feed or channel that could not be fetched, an
\* item whose generation or publishing failed), and with 0 only when none did
C29_ExitCodeTellsFailure ==
    (last.proc = "cli" /\ last.how = "returned") =>
        LET f == last.frame
            down(units) == \E i \in 1..Len(units) : ~units[i].ok
            discovery ==
                \/ "rss" \in f.selected /\ down(world.rss)
                \/ "youtube" \in f.selected /\ settings.youtube_api_key
                      /\ down(world.youtube)
                \/ "telegram" \in f.selected /\ down(world.telegram)
            item == \E i \in 1..Len(f.details) : f.details[i].tag = "error"
        IN (last.caller = "exit_0") <=> ~(discovery \/ item)

\* C30: resolve_profile is a function of (settings, seed): two calls with the
\* same settings and seed return the same value on every axis, and an axis
\* set to "random" resolves to one of its choices other than "random"
C30_ProfileIsStable ==
    LET n == Len(profile.calls)
        choices(presets) == SeqRange(presets) \ {"random"}
    IN /\ \A i, j \in 1..n :
             profile.calls[i].seed = profile.calls[j].seed =>
                 profile.calls[i].result = profile.calls[j].result
       /\ \A i \in 1..n :
             /\ profile.calls[i].result.style \in choices(STYLE_PRESETS)
             /\ profile.calls[i].result.content_format \in choices(FORMAT_PRESETS)
             /\ profile.calls[i].result.mood \in choices(MOOD_PRESETS)

C30_SameSeedTwiceAllRandom ==
    /\ Len(profile.calls) = 2
    /\ profile.calls[1].seed = profile.calls[2].seed
    /\ settings.content_style = "random"
    /\ settings.content_format = "random"
    /\ settings.author_mood = " random "
    /\ profile.calls[1].result = profile.calls[2].result
    /\ profile.calls[2].result.style = "thematic"
    /\ profile.calls[2].result.content_format = "release_notes"
    /\ profile.calls[2].result.mood # "neutral"

\* C31: queue assembly leaves the ledger as it was: no adapter writes a
\* record for a candidate, so every record of the ledger has status
\* published or draft and stands for a URL that was published or drafted
C31_AssemblyLeavesLedger ==
    [][/\ \A p \in Procs :
            (pc[p] \in {"rss", "youtube", "telegram"} /\ pc'[p] # pc[p]) =>
                ledger' = ledger
       /\ \A u \in DOMAIN ledger' :
            /\ ledger'[u].status \in CountedStatuses
            /\ wpPosts'[u] >= 1]_vars

\* C32: every item whose processing was started is counted in exactly one
\* of processed and skipped: in a run, and in its result, processed +
\* skipped is the number of items attempted
C32_EachItemCountedOnce ==
    /\ \A p \in Procs :
          pc[p] = "loop" => loc[p].processed + loc[p].skipped = loc[p].idx - 1
    /\ last.how = "returned" =>
          last.result.processed + last.result.skipped = last.frame.idx - 1

\* C33: for every queued item of every source kind the article generator is
\* invoked with a system prompt that carries the content profile resolved
\* from the settings with the item's URL as seed
C33_PromptCarriesProfile ==
    \A i \in 1..Len(profile.calls) :
        LET c == profile.calls[i]
        IN \E h \in [Axes -> Digests] :
              /\ \A a \in Axes :
                    <<c.seed, a>> \in DOMAIN profile.sha => h[a] = profile.sha[<<c.seed, a>>]
              /\ c.system_prompt.block = ResolveProfile(settings, h)

\* C34: a cap of 0 is no cap: with max_per_run = 0 the queue is not
\* truncated and a run that goes through its loop attempts every assembled
\* candidate; with daily_limit_total = 0 neither the check before the run
\* nor the check inside the loop stops a run, whatever today's count is
C34_ZeroMeansNoCap ==
    [][\A p \in Procs :
        /\ (settings.max_per_run = 0 /\ pc[p] = "telegram" /\ pc'[p] = "loop") =>
               loc'[p].queue = loc'[p].assembled
        /\ (settings.max_per_run = 0 /\ pc[p] = "loop" /\ pc'[p] = "idle"
              /\ last'.how = "returned" /\ loc[p].idx > Len(loc[p].queue)) =>
               last'.frame.idx = Len(last'.frame.assembled) + 1
        /\ (settings.daily_limit_total = 0 /\ last'.proc = p /\ last'.how = "returned") =>
               \A i \in 1..Len(last'.result.details) :
                   last'.result.details[i].tag \notin
                       {"daily_limit", "daily_limit_during_run"}
        /\ (settings.daily_limit_total = 0 /\ pc[p] = "idle" /\ runs' # runs
              /\ pc'[p] = "idle" /\ last'.proc = p) =>
               last'.result.details[1].tag \in {"disabled", "no_sources"}
        /\ (settings.daily_limit_total = 0 /\ pc[p] = "loop" /\ pc'[p] = "idle"
              /\ last'.how = "returned") =>
               loc[p].idx > Len(loc[p].queue)]_vars

C34_ThreeItemsNoCaps ==
    /\ settings.max_per_run = 0
    /\ settings.daily_limit_total = 0
    /\ last.how = "returned"
    /\ Len(last.frame.assembled) = 3
    /\ last.frame.idx = 4
    /\ last.result.processed = 3
    /\ CountProcessedToday(ledger, day, CountedStatuses) = 2

\* C35: a malformed (non-integer) value of an integer settings key is
\* replaced by the default of that key and never raises, in
\* run_autopilot_once (max_per_run 3, daily_limit_total 10, per-feed limit
\* 3) and in the daemon loop (poll minutes 10)
C35_MalformedIntFallsBack ==
    LET bad(raw) == raw.kind # "int"
    IN /\ \A p \in Procs :
             pc[p] = "lock" =>
                 /\ bad(settings.max_per_run) => loc[p].max_per_run = 3
                 /\ bad(settings.daily_limit_total) => loc[p].daily_limit_total = 10
                 /\ bad(settings.limit_per_feed) => loc[p].limit_per_feed = 3
       /\ daemon.phase # "crashed"
       /\ daemon.now >= StartTime =>
             \A s \in Sources :
                 (bad(settings.poll_minutes[s]) /\ daemon.now - StartTime < 600) =>
                     (s \in daemon.due <=> daemon.now = StartTime)

\* C36: mark_url_processed on a URL that has a record overwrites source and
\* status, keeps the old title when the new title is null and replaces it
\* otherwise, never makes a second record, and is_url_processed(url) is
\* true after any mark_url_processed(url, ...)
C36_UpsertSemantics ==
    [][\A url \in Urls, source \in Sources, title \in Titles, status \in Statuses :
        MarkUrl(url, source, title, status) =>
            /\ IsUrlProcessed(ledger', url)
            /\ DOMAIN ledger' = DOMAIN ledger \cup {url}
            /\ \A u \in DOMAIN ledger : u # url => ledger'[u] = ledger[u]
            /\ ledger'[url].source = source
            /\ ledger'[url].status = status
            /\ url \in DOMAIN ledger =>
                  ledger'[url].title = IF title = NoTitle THEN ledger[url].title
                                       ELSE title
            /\ url \notin DOMAIN ledger => ledger'[url].title = title]_vars

C36_RemarkedWithNullTitle ==
    /\ Len(profile.calls) = 2
    /\ profile.calls[1].url = profile.calls[2].url
    /\ profile.calls[1].title = SeoTitle
    /\ profile.calls[1].source = "rss"
    /\ profile.calls[1].status = "published"
    /\ profile.calls[2].title = NoTitle
    /\ profile.calls[2].source = "telegram"
    /\ profile.calls[2].status = "seen"
    /\ DOMAIN ledger = {profile.calls[1].url}
    /\ ledger[profile.calls[1].url].title = SeoTitle
    /\ ledger[profile.calls[1].url].source = "telegram"
    /\ ledger[profile.calls[1].url].status = "seen"

\* C37: run_autopilot_once never changes the settings map of its caller: the
\* per-item wp_post_status goes to a derived copy, the post is created with
\* the status of the item's source, and the caller's settings (wp_post_status
\* included) are afterwards what they were before
C37_CallerSettingsKept ==
    [][/\ settings' = settings
       /\ \A source \in Sources :
            PublishItem(source) =>
                profile'.calls[Len(profile'.calls)].post_status =
                    ModeToWpStatus(settings.mode[source])]_vars

C37_OverrideDiffersFromStored ==
    /\ settings.wp_post_status = "draft"
    /\ Len(profile.calls) = 2
    /\ profile.calls[1] = [source |-> "rss", post_status |-> "publish"]
    /\ profile.calls[2] = [source |-> "telegram", post_status |-> "draft"]
    /\ settings.mode["rss"] = "publish"

\* C38: no starvation across runs: with max_per_run > 0 and no daily cap, a
\* candidate that its adapter keeps returning and whose generation and
\* publishing succeed is eventually published or drafted by some run, also
\* when candidates ahead of it in the queue fail on every attempt
C38_NoStarvation ==
    \A u \in Urls :
        (settings.max_per_run > 0 /\ Candidate(u))
            ~> (IsUrlProcessed(ledger, u) /\ ledger[u].status \in CountedStatuses)

====
